---- MODULE Spec2Model ----
(***************************************************************************)
(* Shadow validation of the chunks of a processed block                    *)
(* (chain/client/src/stateless_validation/shadow_validate.rs).             *)
(*                                                                         *)
(* Client::shadow_validate_block_chunks runs on the block-processing       *)
(* thread; it is modelled one fallible call per step, so that the tasks it *)
(* hands to the rayon pool interleave with it.  The chain storage, the     *)
(* runtime adapter, the epoch manager and the witness codec are external:  *)
(* every call into them returns Ok or Err, chosen by the environment.      *)
(***************************************************************************)
EXTENDS Integers, Sequences, FiniteSets, TLC

\* Number of shards (chunk slots) of a processed block.
NumShards == 2
\* Number of blocks handed to shadow_validate_block_chunks in one behaviour.
MaxBlocks == 2

Shards == 0 .. (NumShards - 1)

VARIABLES
    feature,                \* cfg!(feature = "shadow_chunk_validation")
    save_latest_witnesses,  \* self.config.save_latest_witnesses
    height,                 \* height of the block of the latest call (0: none yet)
    block,                  \* the `block` argument of the latest call
    prev_block,             \* the local `prev_block` (line 24)
    pc,                     \* position of the block-processing thread
    idx,                    \* position of the iterator over block.chunks()
    cur,                    \* shard id of the chunk of the current iteration
    result,                 \* how the latest call ended: none, ok, err, panic
    ran,                    \* calls made for the latest block: <<shard, stage, ok>>
    counter,                \* metrics::SHADOW_CHUNK_VALIDATION_FAILED_TOTAL
    last_error,             \* the tracing::error! record the latest step wrote (NoError: none)
    tasks,                  \* closures handed to rayon::spawn, not yet finished
    latest_witness,         \* chunk hash of the witness last saved by the chain store
    witness,                \* the local `witness` of shadow_validate_chunk (line 80)
    failures                \* history: Err results inside shadow_validate_chunk and its closures

vars == << feature, save_latest_witnesses, height, block, prev_block, pc, idx, cur,
           result, ran, counter, last_error, tasks, latest_witness, witness, failures >>

config_vars == << feature, save_latest_witnesses >>
call_vars == << height, block >>

----------------------------------------------------------------------------
\* Data

NoHash == << >>
NoBlockHash == -1

\* ShardChunkHeader: the chunk hash stands for (height_included, shard_id).
ChunkHeader(s, h) == [shard_id |-> s, height_included |-> h, chunk_hash |-> << h, s >>]

\* ShardChunkHeader::is_new_chunk(height)
is_new_chunk(hdr, h) == hdr.height_included = h

\* A block at height h (its hash stands for h) whose chunks at the shards of
\* `fresh` are new and whose other chunks are carried over from height h - 1.
Block(h, fresh, n) ==
    [hash |-> h, height |-> h, prev_hash |-> h - 1,
     chunks |-> [i \in 1 .. n |-> ChunkHeader(i - 1, IF (i - 1) \in fresh THEN h ELSE h - 1)]]

NoBlock == [hash |-> NoBlockHash, height |-> 0, prev_hash |-> NoBlockHash, chunks |-> << >>]

\* `block.chunks().iter().filter(|chunk| chunk.is_new_chunk(block.header().height()))`:
\* the positions, from `from` on, the filtered iterator still yields.
NewChunksFrom(b, from) ==
    { i \in from .. (Len(b.chunks) - 1) : is_new_chunk(b.chunks[i + 1], b.height) }

NewChunks(b) == NewChunksFrom(b, 0)

Min(S) == CHOOSE x \in S : \A y \in S : x <= y

NoError == [src |-> "none", shard_id |-> -1,
            chunk_hash |-> NoHash, block_hash |-> NoBlockHash]

\* ChunkStateWitness: `form` tells the object create_state_witness built from
\* the one EncodedChunkStateWitness::decode builds from the encoded bytes.
NoWitness == [chunk_hash |-> NoHash, form |-> "none"]
StateWitness(h) == [chunk_hash |-> h, form |-> "built"]

\* EncodedChunkStateWitness::encode(&witness) and encoded_witness.decode()
encode(w) == [bytes_of |-> w.chunk_hash]
decode(e) == [chunk_hash |-> e.bytes_of, form |-> "decoded"]

----------------------------------------------------------------------------
Init ==
    /\ feature = TRUE
    /\ save_latest_witnesses \in BOOLEAN
    /\ height = 0
    /\ block = NoBlock
    /\ prev_block = NoBlock
    /\ pc = "idle"
    /\ idx = 0
    /\ cur = 0
    /\ result = "none"
    /\ ran = {}
    /\ counter = 0
    /\ last_error = NoError
    /\ tasks = {}
    /\ latest_witness = NoHash
    /\ witness = NoWitness
    /\ failures = 0

----------------------------------------------------------------------------
\* How a fallible call ends for the block-processing thread.

locals == << prev_block, idx, cur, witness >>
loop_locals == << prev_block, idx, cur >>

\* The locals of shadow_validate_block_chunks go out of scope.
DropLocals ==
    /\ prev_block' = NoBlock
    /\ idx' = 0
    /\ cur' = 0
    /\ witness' = NoWitness

\* A step that neither counts nor logs a failure.
Quiet ==
    /\ counter' = counter
    /\ last_error' = NoError

\* The call succeeded: the thread goes on to `next`.
Continue(next) ==
    /\ pc' = next
    /\ result' = result
    /\ Quiet

\* Line 44: the per-block call returns Ok(()).
ReturnOk ==
    /\ pc' = "idle"
    /\ result' = "ok"
    /\ DropLocals
    /\ Quiet

\* `?` inside shadow_validate_block_chunks: the per-block call returns Err.
ReturnErr ==
    /\ pc' = "idle"
    /\ result' = "err"
    /\ DropLocals
    /\ Quiet

\* `.unwrap()` on None: the block-processing thread panics.
Panic ==
    /\ pc' = "panicked"
    /\ result' = "panic"
    /\ DropLocals
    /\ Quiet

\* Variant of ChunkFailed that steps the iterator back, so that the loop
\* yields the failed chunk again.
ChunkFailed_Retry ==
    /\ pc' = "loop"
    /\ result' = result
    /\ counter' = counter + 1
    /\ last_error' = [src |-> "sync", shard_id |-> cur,
                      chunk_hash |-> NoHash, block_hash |-> block.hash]
    /\ witness' = NoWitness
    /\ idx' = idx - 1
    /\ UNCHANGED << prev_block, cur >>

\* Variant of ChunkFailed in which the failure is counted twice (once where
\* it arises and once more by the caller).
ChunkFailed_CountedTwice ==
    /\ pc' = "loop"
    /\ result' = result
    /\ counter' = counter + 2
    /\ last_error' = [src |-> "sync", shard_id |-> cur,
                      chunk_hash |-> NoHash, block_hash |-> block.hash]
    /\ witness' = NoWitness
    /\ UNCHANGED loop_locals

\* Lines 31-42: shadow_validate_chunk returned Err; the `if let Err(err)` arm
\* counts and logs it (the record has no chunk hash), and the loop goes on.
ChunkFailed ==
    /\ pc' = "loop"
    /\ result' = result
    /\ counter' = counter + 1
    /\ last_error' = [src |-> "sync", shard_id |-> cur,
                      chunk_hash |-> NoHash, block_hash |-> block.hash]
    /\ witness' = NoWitness
    /\ UNCHANGED loop_locals

\* Variants of the error paths below, each the slip named in its comment.
\* get_block's Err dropped instead of returned.
get_block_Err_Ignored == Continue("loop") /\ UNCHANGED locals
\* get_chunk's Err returned from the per-block call instead of being caught.
get_chunk_Err_Propagated == ReturnErr
\* The proof-generation Err returned from the per-block call.
validate_prepared_transactions_Err_Propagated == ReturnErr
\* The pre-validation Err dropped: the closure is spawned all the same.
pre_validate_chunk_state_witness_Err_Ignored == Continue("spawn") /\ UNCHANGED locals

\* The decode Err dropped: pre-validation runs all the same.
decode_Err_Ignored == Continue("pre_validate_chunk_state_witness") /\ UNCHANGED locals

\* What the Err (or None) of each fallible call leads to.
\* Line 24, `?` in shadow_validate_block_chunks.
get_block_Err == ReturnErr
\* Line 29, `?` in shadow_validate_block_chunks.
get_chunk_clone_from_header_Err == ReturnErr
\* Line 30, `.unwrap()`.
prev_chunk_header_None == Panic
\* Line 56, `?` in shadow_validate_chunk.
get_chunk_Err == ChunkFailed
\* Lines 74-78, `else { return Err(..) }`.
validate_prepared_transactions_Err == ChunkFailed
\* Line 87, `?`.
create_state_witness_Err == ChunkFailed
\* Line 89, `?`.
save_latest_chunk_state_witness_Err == ChunkFailed
\* Line 96, `?`.
encode_Err == ChunkFailed
\* Line 106, `?`.
decode_Err == ChunkFailed
\* Line 116, `?`.
pre_validate_chunk_state_witness_Err == ChunkFailed

----------------------------------------------------------------------------
\* Client::shadow_validate_block_chunks

\* Number of chunk headers the fetched previous block may hold (the shard
\* layout of the previous block may have one shard less).
PrevWidths == { n \in { NumShards - 1, NumShards } : n >= 1 }

\* Variant of the entry without the feature check of lines 19-21.
ShadowValidateBlockChunks_Unguarded ==
    /\ pc = "idle"
    /\ height < MaxBlocks
    /\ \E fresh \in SUBSET Shards :
        block' = Block(height + 1, fresh, NumShards)
    /\ height' = height + 1
    /\ ran' = {}
    /\ pc' = "get_block" /\ result' = "none"
    /\ Quiet
    /\ UNCHANGED << config_vars, locals, tasks, latest_witness, failures >>

\* Lines 18-23: a new block is handed over.
ShadowValidateBlockChunks ==
    /\ pc = "idle"
    /\ height < MaxBlocks
    /\ \E fresh \in SUBSET Shards :
        block' = Block(height + 1, fresh, NumShards)
    /\ height' = height + 1
    /\ ran' = {}
    /\ IF feature
         THEN pc' = "get_block" /\ result' = "none"
         ELSE pc' = "idle" /\ result' = "ok"
    /\ Quiet
    /\ UNCHANGED << config_vars, locals, tasks, latest_witness, failures >>

\* Line 24: self.chain.get_block(block.header().prev_hash())?
GetBlock ==
    /\ pc = "get_block"
    /\ \E ok \in BOOLEAN :
        /\ ran' = ran \cup { << -1, "get_block", ok >> }
        /\ IF ok
             THEN /\ \E n \in PrevWidths :
                        prev_block' = Block(block.height - 1, Shards, n)
                  /\ UNCHANGED << idx, cur, witness >>
                  /\ Continue("loop")
             ELSE get_block_Err
    /\ UNCHANGED << config_vars, call_vars, tasks, latest_witness, failures >>

\* Lines 26-28 and 44: the filtered iterator yields the next new chunk, or
\* the loop ends and the call returns Ok(()).
NextChunk ==
    /\ pc = "loop"
    /\ LET rest == NewChunksFrom(block, idx) IN
        IF rest = {}
          THEN ReturnOk
          ELSE /\ cur' = block.chunks[Min(rest) + 1].shard_id
               /\ idx' = Min(rest) + 1
               /\ UNCHANGED << prev_block, witness >>
               /\ Continue("get_chunk_clone_from_header")
    /\ UNCHANGED << config_vars, call_vars, ran, tasks, latest_witness, failures >>

\* The fallible calls shadow_validate_chunk makes before it spawns.
SyncStages ==
    { "get_chunk", "validate_prepared_transactions", "create_state_witness",
      "save_latest_chunk_state_witness", "encode", "decode",
      "pre_validate_chunk_state_witness" }

\* 1 when the call `name` of shadow_validate_chunk returned Err, else 0.
AttemptFailure(name, ok) == IF ~ok /\ name \in SyncStages THEN 1 ELSE 0

\* A fallible call on the block-processing thread: onOk and onErr say what
\* its Ok and its Err lead to.
Call(at, name, onOk, onErr) ==
    /\ pc = at
    /\ \E ok \in BOOLEAN :
        /\ ran' = ran \cup { << cur, name, ok >> }
        /\ failures' = failures + AttemptFailure(name, ok)
        /\ IF ok THEN onOk ELSE onErr
    /\ UNCHANGED << config_vars, call_vars, tasks, latest_witness >>

\* A fallible call that touches nothing but the thread's position, the
\* failure metric and the error log.
Stage(at, name, next, onErr) ==
    Call(at, name, Continue(next) /\ UNCHANGED locals, onErr)

\* Line 29: self.chain.get_chunk_clone_from_header(chunk)?
GetChunkCloneFromHeader ==
    Stage("get_chunk_clone_from_header", "get_chunk_clone_from_header",
          "prev_chunk_header", get_chunk_clone_from_header_Err)

\* Line 30: prev_block_chunks.get(chunk.shard_id() as usize).unwrap()
PrevChunkHeader ==
    /\ pc = "prev_chunk_header"
    /\ LET ok == cur < Len(prev_block.chunks) IN
        /\ ran' = ran \cup { << cur, "prev_chunk_header", ok >> }
        /\ IF ok THEN Continue("get_chunk") /\ UNCHANGED locals
                 ELSE prev_chunk_header_None
    /\ UNCHANGED << config_vars, call_vars, tasks, latest_witness, failures >>

----------------------------------------------------------------------------
\* Client::shadow_validate_chunk, entered from line 32

\* chunk.chunk_hash() of the chunk of the current iteration.
chunk_hash == block.chunks[cur + 1].chunk_hash

\* Line 56: self.chain.get_chunk(&prev_chunk_header.chunk_hash())?
GetChunk ==
    Stage("get_chunk", "get_chunk", "validate_prepared_transactions", get_chunk_Err)

\* Lines 67-78: validate_prepared_transactions(..) else return Err(Error::Other(..))
ValidatePreparedTransactions ==
    Stage("validate_prepared_transactions", "validate_prepared_transactions",
          "create_state_witness", validate_prepared_transactions_Err)

\* Lines 80-87: self.create_state_witness(..)?
CreateStateWitness ==
    Call("create_state_witness", "create_state_witness",
         /\ witness' = StateWitness(chunk_hash)
         /\ UNCHANGED loop_locals
         /\ Continue("save_latest_chunk_state_witness"),
         create_state_witness_Err)

\* Variant that saves the witness whatever the configuration says.
SaveLatestChunkStateWitness_Always ==
    /\ pc = "save_latest_chunk_state_witness"
    /\ \E ok \in BOOLEAN :
        /\ ran' = ran \cup { << cur, "save_latest_chunk_state_witness", ok >> }
        /\ failures' = failures + AttemptFailure("save_latest_chunk_state_witness", ok)
        /\ IF ok
             THEN /\ latest_witness' = witness.chunk_hash
                  /\ Continue("encode") /\ UNCHANGED locals
             ELSE /\ latest_witness' = latest_witness
                  /\ save_latest_chunk_state_witness_Err
    /\ UNCHANGED << config_vars, call_vars, tasks >>

\* Lines 88-90: if self.config.save_latest_witnesses {
\*     self.chain.chain_store.save_latest_chunk_state_witness(&witness)?; }
SaveLatestChunkStateWitness ==
    /\ pc = "save_latest_chunk_state_witness"
    /\ IF save_latest_witnesses
         THEN \E ok \in BOOLEAN :
                /\ ran' = ran \cup { << cur, "save_latest_chunk_state_witness", ok >> }
                /\ failures' = failures + AttemptFailure("save_latest_chunk_state_witness", ok)
                /\ IF ok
                     THEN /\ latest_witness' = witness.chunk_hash
                          /\ Continue("encode") /\ UNCHANGED locals
                     ELSE /\ latest_witness' = latest_witness
                          /\ save_latest_chunk_state_witness_Err
         ELSE /\ ran' = ran
              /\ failures' = failures
              /\ latest_witness' = latest_witness
              /\ Continue("encode") /\ UNCHANGED locals
    /\ UNCHANGED << config_vars, call_vars, tasks >>

\* Line 96: EncodedChunkStateWitness::encode(&witness)?
Encode ==
    Stage("encode", "encode", "decode", encode_Err)

\* The decoded witness takes the place of the local `witness`.
decode_Ok_Substituted ==
    /\ witness' = decode(encode(witness))
    /\ UNCHANGED loop_locals
    /\ Continue("pre_validate_chunk_state_witness")

\* Lines 106-108: the value of `encoded_witness.decode()?` is dropped; the
\* block yields (encoded_witness, raw_witness_size) and `witness` stays.
decode_Ok ==
    /\ witness' = witness
    /\ UNCHANGED loop_locals
    /\ Continue("pre_validate_chunk_state_witness")

\* Line 106: encoded_witness.decode()?
Decode ==
    Call("decode", "decode", decode_Ok, decode_Err)

\* Lines 110-125: pre_validate_chunk_state_witness(&witness, ..)?
PreValidateChunkStateWitness ==
    Stage("pre_validate_chunk_state_witness", "pre_validate_chunk_state_witness",
          "spawn", pre_validate_chunk_state_witness_Err)

\* Variant of RayonSpawn that submits only once the pool has drained (a
\* blocking hand-over such as rayon::scope).
RayonSpawn_Join ==
    /\ pc = "spawn"
    /\ tasks = {}
    /\ tasks' = tasks \cup { [chunk_hash |-> chunk_hash, shard_id |-> cur,
                               witness |-> witness] }
    /\ witness' = NoWitness
    /\ ran' = ran \cup { << cur, "spawn", TRUE >> }
    /\ Continue("loop")
    /\ UNCHANGED << config_vars, call_vars, loop_locals, latest_witness, failures >>

\* Lines 126-128 and 157-158: rayon::spawn(move || ..) queues the closure and
\* shadow_validate_chunk returns Ok(()) at once.
RayonSpawn ==
    /\ pc = "spawn"
    /\ tasks' = tasks \cup { [chunk_hash |-> chunk_hash, shard_id |-> cur,
                               witness |-> witness] }
    /\ witness' = NoWitness
    /\ ran' = ran \cup { << cur, "spawn", TRUE >> }
    /\ Continue("loop")
    /\ UNCHANGED << config_vars, call_vars, loop_locals, latest_witness, failures >>

----------------------------------------------------------------------------
\* The closure handed to rayon::spawn (lines 128-157), run by a pool thread.

\* Variant of the Err arm that logs the failure and leaves the counter alone.
validate_chunk_state_witness_Err_Uncounted(t) ==
    /\ counter' = counter
    /\ last_error' = [src |-> "async", shard_id |-> t.shard_id,
                      chunk_hash |-> t.chunk_hash, block_hash |-> NoBlockHash]

\* Lines 146-155: the Err arm counts and logs (the record has no block hash).
validate_chunk_state_witness_Err(t) ==
    /\ counter' = counter + 1
    /\ last_error' = [src |-> "async", shard_id |-> t.shard_id,
                      chunk_hash |-> t.chunk_hash, block_hash |-> NoBlockHash]

\* Variant of the closure that runs only while its block is the latest one:
\* the closures of an earlier block are left in the queue for good.
ValidateChunkStateWitness_LatestBlockOnly(t) ==
    /\ t \in tasks
    /\ t.chunk_hash[1] = height
    /\ tasks' = tasks \ { t }
    /\ \E ok \in BOOLEAN :
        /\ failures' = failures + (IF ok THEN 0 ELSE 1)
        /\ IF ok THEN Quiet ELSE validate_chunk_state_witness_Err(t)
    /\ UNCHANGED << config_vars, call_vars, locals, pc, result, ran, latest_witness >>

\* Lines 129-156: validate_chunk_state_witness(witness, ..) and its two arms.
ValidateChunkStateWitness(t) ==
    /\ t \in tasks
    /\ tasks' = tasks \ { t }
    /\ \E ok \in BOOLEAN :
        /\ failures' = failures + (IF ok THEN 0 ELSE 1)
        /\ IF ok THEN Quiet ELSE validate_chunk_state_witness_Err(t)
    /\ UNCHANGED << config_vars, call_vars, locals, pc, result, ran, latest_witness >>

----------------------------------------------------------------------------
\* Steps of the block-processing thread, and of the pool.
ClientStep ==
    \/ ShadowValidateBlockChunks
    \/ GetBlock
    \/ NextChunk
    \/ GetChunkCloneFromHeader
    \/ PrevChunkHeader
    \/ GetChunk
    \/ ValidatePreparedTransactions
    \/ CreateStateWitness
    \/ SaveLatestChunkStateWitness
    \/ Encode
    \/ Decode
    \/ PreValidateChunkStateWitness
    \/ RayonSpawn

PoolStep == \E t \in tasks : ValidateChunkStateWitness(t)

Next == ClientStep \/ PoolStep

Spec == Init /\ [][Next]_vars

\* The program in either build, with the shadow_chunk_validation feature
\* compiled in or not.
InitAnyBuild ==
    /\ feature \in BOOLEAN
    /\ save_latest_witnesses \in BOOLEAN
    /\ height = 0
    /\ block = NoBlock
    /\ prev_block = NoBlock
    /\ pc = "idle"
    /\ idx = 0
    /\ cur = 0
    /\ result = "none"
    /\ ran = {}
    /\ counter = 0
    /\ last_error = NoError
    /\ tasks = {}
    /\ latest_witness = NoHash
    /\ witness = NoWitness
    /\ failures = 0

AnyBuildSpec == InitAnyBuild /\ [][Next]_vars

\* Every closure rayon::spawn can be handed within the bounds.
AllTasks ==
    { [chunk_hash |-> << h, s >>, shard_id |-> s, witness |-> StateWitness(<< h, s >>)] :
        h \in 1 .. MaxBlocks, s \in Shards }

\* The rayon pool runs every closure it was handed: a closure that stays
\* queued is eventually run by a pool thread.
FairSpec == Spec /\ \A t \in AllTasks : WF_vars(ValidateChunkStateWitness(t))

----------------------------------------------------------------------------
\* Vocabulary of the properties, over the calls recorded for the latest block.

Called(s, stage) == \E ok \in BOOLEAN : << s, stage, ok >> \in ran
Succeeded(s, stage) == << s, stage, TRUE >> \in ran
Failed(s, stage) == << s, stage, FALSE >> \in ran

\* The per-block call has ended (returned or panicked).
CallEnded == result # "none"
PrevBlockFetched == Succeeded(-1, "get_block")
PrevBlockMissing == Failed(-1, "get_block")

\* The loop reached the new chunk of shard s.
Attempted(s) == Called(s, "get_chunk_clone_from_header")
\* A full-validation closure was handed to the pool for shard s.
Submitted(s) == Called(s, "spawn")
\* The pending closures the latest call submitted.
OwnTasks == { t \in tasks : t.chunk_hash[1] = height }

\* A failure on the per-block level, which ends the whole call.
BlockLevelFailure(s) ==
    Failed(s, "get_chunk_clone_from_header") \/ Failed(s, "prev_chunk_header")

\* The calls made for one new chunk, in program order.
ChunkCalls ==
    << "get_chunk_clone_from_header", "prev_chunk_header", "get_chunk",
       "validate_prepared_transactions", "create_state_witness" >>
    \o (IF save_latest_witnesses THEN << "save_latest_chunk_state_witness" >> ELSE << >>)
    \o << "encode", "decode", "pre_validate_chunk_state_witness", "spawn" >>

\* Every call of the chunk's attempt was followed by the next one as long as
\* it succeeded, down to the submission of the full validation.
RanToFirstFailure(s) ==
    \A i \in 1 .. (Len(ChunkCalls) - 1) :
        Succeeded(s, ChunkCalls[i]) => Called(s, ChunkCalls[i + 1])

\* The calls of shadow_validate_chunk that follow the named one.
After(stage) ==
    LET i == CHOOSE k \in 1 .. Len(ChunkCalls) : ChunkCalls[k] = stage IN
    { ChunkCalls[k] : k \in (i + 1) .. Len(ChunkCalls) }

----------------------------------------------------------------------------
\* C1: whenever the previous block was fetched, the per-block call ends in
\* success, whatever failed for its chunks; the only error it returns is the
\* failure to fetch the previous block.
C1_OnlyPrevBlockFailureFailsCall ==
    (CallEnded /\ PrevBlockFetched) => result = "ok"

\* C2: when the previous block cannot be fetched the call returns an error
\* and nothing was done for any chunk: no chunk fetched, no witness built, no
\* closure submitted; the step that fails leaves the failure counter and the
\* pool as they were.
C2_Nothing ==
    PrevBlockMissing =>
        /\ result = "err"
        /\ pc = "idle"
        /\ ran = { << -1, "get_block", FALSE >> }
        /\ OwnTasks = {}

C2_Step ==
    (pc = "get_block" /\ << -1, "get_block", FALSE >> \in ran') =>
        (counter' = counter /\ tasks' = tasks /\ last_error' = NoError)

C2_PrevBlockMissingAborts == [] C2_Nothing /\ [][C2_Step]_vars

\* C2 happens: the previous block of a block with new chunks is missing.
C2_Witness ==
    /\ PrevBlockMissing
    /\ result = "err"
    /\ NewChunks(block) # {}

\* C3: when the body of a new chunk cannot be fetched, every other new chunk
\* of the block is attempted all the same, those after it included.
C3_OtherChunksStillAttempted ==
    (CallEnded /\ \E s \in Shards : Failed(s, "get_chunk_clone_from_header")) =>
        \A t \in NewChunks(block) : Attempted(t)

\* C4: a failure of proof generation for shard S does not keep the loop from
\* any later new chunk T: once the call has ended T was reached, ran each of
\* its calls up to its own first failure and was submitted when none failed.
\* Only a failure on the per-block level of a chunk between S and T (its body
\* or its previous chunk header missing) keeps the loop from T.
C4_ProofFailureIsolated ==
    \A S \in Shards :
        (Failed(S, "validate_prepared_transactions") /\ CallEnded) =>
            \A T \in NewChunks(block) :
                T > S =>
                    \/ \E U \in NewChunks(block) : S < U /\ U < T /\ BlockLevelFailure(U)
                    \/ Attempted(T) /\ RanToFirstFailure(T)

\* C4 happens: proof generation failed for shard 0 and the full validation of
\* shard 1 was submitted by the same call.
C4_Witness ==
    /\ Failed(0, "validate_prepared_transactions")
    /\ Submitted(1)
    /\ result = "ok"

\* C5: the chunks attempted are exactly the new chunks of the block: no
\* carried-over chunk is attempted, and once the call has ended (the previous
\* block having been fetched) every new chunk was attempted.
C5_ExactlyNewChunks ==
    /\ \A s \in Shards : Attempted(s) => s \in NewChunks(block)
    /\ (CallEnded /\ PrevBlockFetched) => \A s \in NewChunks(block) : Attempted(s)

\* C6: a full-validation closure exists for a chunk only after its
\* pre-validation succeeded; when pre-validation fails nothing is submitted
\* for the chunk, and the failing step adds exactly 1 to the failure counter.
C6_Gate ==
    /\ \A s \in Shards :
        /\ Submitted(s) => Succeeded(s, "pre_validate_chunk_state_witness")
        /\ Failed(s, "pre_validate_chunk_state_witness") => ~Submitted(s)
    /\ \A t \in OwnTasks : Succeeded(t.shard_id, "pre_validate_chunk_state_witness")

C6_Step ==
    (pc = "pre_validate_chunk_state_witness"
        /\ << cur, "pre_validate_chunk_state_witness", FALSE >> \in ran') =>
        (counter' = counter + 1 /\ tasks' = tasks)

C6_FullValidationOnlyAfterPreValidation == [] C6_Gate /\ [][C6_Step]_vars

\* C6 happens: pre-validation rejected a witness and the call went on to its end.
C6_Witness ==
    /\ \E s \in Shards : Failed(s, "pre_validate_chunk_state_witness")
    /\ result = "ok"
    /\ counter >= 1

\* C7: the block-processing thread never waits for the pool: inside a call it
\* always has a step to take, and between calls the next block can be handed
\* over, whatever closures are pending; every pending closure can run whatever
\* the thread is doing.
C7_FireAndForget ==
    /\ (pc # "panicked" /\ ~(pc = "idle" /\ height = MaxBlocks)) => ENABLED ClientStep
    /\ \A t \in tasks : ENABLED ValidateChunkStateWitness(t)

\* C7 happens: the call for the second block has returned while a closure of
\* the first block and a closure of the second are still pending.
C7_Witness ==
    /\ height = 2
    /\ pc = "idle"
    /\ result = "ok"
    /\ \E t \in tasks : t.chunk_hash[1] = 1
    /\ \E t \in tasks : t.chunk_hash[1] = 2

\* C8: when the predecessor chunk is missing the attempt ends there: none of
\* the later calls is made for the chunk, nothing is submitted for it, and the
\* failing step adds exactly 1 to the failure counter.  The failure stays with
\* its shard: the call ends in success with every new chunk attempted, unless
\* a failure on the per-block level of another chunk ends the call.
C8_Confined ==
    \A S \in Shards :
        Failed(S, "get_chunk") =>
            /\ \A stage \in After("get_chunk") : ~Called(S, stage)
            /\ \A t \in OwnTasks : t.shard_id # S
            /\ CallEnded =>
                \/ \E U \in NewChunks(block) : U # S /\ BlockLevelFailure(U)
                \/ result = "ok" /\ \A T \in NewChunks(block) : Attempted(T)

C8_Step ==
    (pc = "get_chunk" /\ << cur, "get_chunk", FALSE >> \in ran') =>
        counter' = counter + 1

C8_MissingPredecessorConfined == [] C8_Confined /\ [][C8_Step]_vars

\* C8 happens: the predecessor chunk of shard 0 was missing, shard 1 went
\* through to submission and the call returned success.
C8_Witness ==
    /\ Failed(0, "get_chunk")
    /\ Submitted(1)
    /\ result = "ok"
    /\ counter >= 1

\* C9: every failure of a per-chunk call (chunk body or predecessor chunk
\* unavailable, proof generation, encode, decode, pre-validation) is counted
\* and does not end the per-block call in an error.
FailedChunkCalls ==
    { e \in ran :
        /\ ~e[3]
        /\ e[2] \in { "get_chunk_clone_from_header", "get_chunk",
                      "validate_prepared_transactions", "encode", "decode",
                      "pre_validate_chunk_state_witness" } }

C9_EveryChunkFailureCounted ==
    /\ counter >= Cardinality(FailedChunkCalls)
    /\ FailedChunkCalls # {} => result # "err"

\* C10: a failed save of the latest witness does not end the chunk's attempt:
\* once the attempt is over encode, decode and pre-validation have run for it.
C10_SaveIsBestEffort ==
    \A s \in Shards :
        (Failed(s, "save_latest_chunk_state_witness") /\ (pc = "loop" \/ CallEnded)) =>
            /\ Called(s, "encode")
            /\ Called(s, "decode")
            /\ Called(s, "pre_validate_chunk_state_witness")

\* C11: every failure report, of a synchronous stage or of a full-validation
\* closure, carries the shard id, the chunk hash and the block hash.
C11_ReportHasShardChunkBlock ==
    last_error.src # "none" =>
        /\ last_error.shard_id \in Shards
        /\ last_error.chunk_hash # NoHash
        /\ last_error.block_hash # NoBlockHash

\* C12: when the previous block has no chunk header at the shard index of a
\* new chunk, the block-processing thread does not panic: the call goes on
\* and, once it has ended, it ended in success with every new chunk attempted.
C12_MissingPrevHeaderNoPanic ==
    \A s \in Shards :
        Failed(s, "prev_chunk_header") =>
            /\ pc # "panicked"
            /\ CallEnded => (result = "ok" /\ \A t \in NewChunks(block) : Attempted(t))

\* The calls of shadow_validate_chunk, in program order, the submission last.
AttemptCalls == SubSeq(ChunkCalls, 3, Len(ChunkCalls))

\* C13: for each chunk the stages run in the order predecessor-chunk fetch,
\* proof generation, witness assembly, (save), encode, decode, pre-validation,
\* submission: a stage has run only when every stage before it succeeded, no
\* stage runs after one that failed, the save runs only when it is configured,
\* and a closure is pending only for a chunk whose every stage succeeded.
C13_StagesInOrderFirstFailureEnds ==
    /\ \A s \in Shards : \A j \in 1 .. Len(AttemptCalls) :
        /\ Called(s, AttemptCalls[j]) =>
                \A i \in 1 .. (j - 1) : Succeeded(s, AttemptCalls[i])
        /\ Failed(s, AttemptCalls[j]) =>
                \A k \in (j + 1) .. Len(AttemptCalls) : ~Called(s, AttemptCalls[k])
    /\ \A s \in Shards :
        Called(s, "save_latest_chunk_state_witness") => save_latest_witnesses
    /\ \A t \in OwnTasks : \A j \in 1 .. Len(AttemptCalls) :
        Succeeded(t.shard_id, AttemptCalls[j])

\* C13 happens: the decode of shard 0 failed, so that its pre-validation never
\* ran, and shard 1 went through every stage to its submission.
C13_Witness ==
    /\ Failed(0, "decode")
    /\ ~Called(0, "pre_validate_chunk_state_witness")
    /\ \A j \in 1 .. Len(AttemptCalls) : Succeeded(1, AttemptCalls[j])
    /\ result = "ok"

\* C14: nothing is retried.  The loop yields a chunk it has not yet attempted
\* in this call; the call the thread is about to make has not yet been made
\* for the current chunk; a step submits at most one closure, for a chunk
\* that has none; and a failed attempt leaves the iterator where it was.
C14_Step ==
    /\ (pc = "loop" /\ pc' = "get_chunk_clone_from_header") =>
            ~Called(cur', "get_chunk_clone_from_header")
    /\ (pc \in { ChunkCalls[i] : i \in 1 .. Len(ChunkCalls) } /\ pc' # pc) =>
            /\ ~Called(cur, pc)
            /\ idx' = idx \/ pc' \in { "idle", "panicked" }
    /\ tasks' \ tasks # {} =>
            /\ Cardinality(tasks' \ tasks) = 1
            /\ pc = "spawn"
            /\ \A t \in tasks : t.chunk_hash # chunk_hash

C14_NothingRetried == [][C14_Step]_vars

\* C14 happens: the only new chunk of the first block failed at encode, the
\* call returned, and the failure was counted once.
C14_Witness ==
    /\ height = 1
    /\ NewChunks(block) = { 0 }
    /\ Failed(0, "encode")
    /\ pc = "idle"
    /\ result = "ok"
    /\ counter = 1

\* C15: closures of several chunks, of one block or of successive blocks, run
\* beside each other and beside the block-processing thread and complete in
\* any order, and the count does not depend on the order.  At every moment,
\* so also once every closure has completed, the failure counter equals the
\* number of Err results inside shadow_validate_chunk plus the number of
\* closures that failed; whatever else is pending and wherever the thread is,
\* each pending closure can complete next, and with either outcome; and the
\* completion of a closure touches no other closure and nothing of the thread.
C15_Counted == counter = failures

C15_AnyOrder ==
    \A t \in tasks :
        /\ ENABLED (ValidateChunkStateWitness(t) /\ counter' = counter)
        /\ ENABLED (ValidateChunkStateWitness(t) /\ counter' = counter + 1)

C15_Step ==
    tasks' # tasks /\ tasks' \subseteq tasks =>
        /\ Cardinality(tasks \ tasks') = 1
        /\ UNCHANGED << config_vars, call_vars, locals, pc, result, ran, latest_witness >>
        /\ \/ counter' = counter /\ last_error' = NoError
           \/ /\ counter' = counter + 1
              /\ last_error'.src = "async"
              /\ \A t \in tasks \ tasks' : last_error'.chunk_hash = t.chunk_hash

C15_OrderIndependentCount == [] (C15_Counted /\ C15_AnyOrder) /\ [][C15_Step]_vars

\* C15 happens: both closures of the second block have completed, a closure
\* of the first block completed after them and failed, nothing is pending,
\* and at least two failures were counted.
C15_Witness ==
    /\ height = 2
    /\ pc = "idle"
    /\ Submitted(0) /\ Submitted(1)
    /\ tasks = {}
    /\ last_error.src = "async"
    /\ last_error.chunk_hash[1] = 1
    /\ counter >= 2

\* C16: under a fairly scheduled pool every closure that was submitted
\* eventually completes; a closure leaves the pool only by running, which
\* ends either quietly (success) or with a counted and logged failure: none
\* is cancelled or dropped.
C16_Step ==
    tasks \ tasks' # {} =>
        /\ \E t \in tasks : ValidateChunkStateWitness(t)
        /\ \/ counter' = counter /\ last_error' = NoError
           \/ counter' = counter + 1 /\ last_error'.src = "async"

C16_EveryTaskCompletes ==
    /\ \A t \in AllTasks : (t \in tasks) ~> (t \notin tasks)
    /\ [][C16_Step]_vars

\* C16 happens: both chunks of the second block were submitted and every
\* closure has completed without a failure.
C16_Witness ==
    /\ height = 2
    /\ Submitted(0) /\ Submitted(1)
    /\ tasks = {}
    /\ counter = 0

\* C17: with save_latest_witnesses disabled nothing is written to the chain
\* store: the save is never called and no step, of the thread or of a
\* closure, whatever its outcome, changes what the store holds; what changes
\* outside the call is the failure counter, the error log and the pool.
C17_NoSave ==
    ~save_latest_witnesses =>
        /\ latest_witness = NoHash
        /\ \A s \in Shards : ~Called(s, "save_latest_chunk_state_witness")

C17_Step ==
    ~save_latest_witnesses =>
        /\ latest_witness' = latest_witness
        /\ UNCHANGED config_vars

C17_ChainStateUntouched == [] C17_NoSave /\ [][C17_Step]_vars

\* C17 happens: with the save disabled two blocks were processed, a failure
\* was counted, a closure was submitted and has completed, and the store
\* holds no witness.
C17_Witness ==
    /\ ~save_latest_witnesses
    /\ height = 2
    /\ pc = "idle"
    /\ Submitted(1)
    /\ tasks = {}
    /\ counter >= 1
    /\ latest_witness = NoHash

\* C18: pre-validation and the full-validation closure receive the witness
\* create_state_witness built, never the object decode returned: the decode
\* step leaves the local `witness` as it was (or ends the attempt), and every
\* closure holds the built witness of its own chunk.
C18_Downstream ==
    /\ pc \in { "pre_validate_chunk_state_witness", "spawn" } =>
            witness = StateWitness(chunk_hash)
    /\ \A t \in tasks : t.witness = StateWitness(t.chunk_hash)

C18_Step ==
    (pc = "decode" /\ pc' # pc) =>
        \/ pc' = "pre_validate_chunk_state_witness" /\ witness' = witness
        \/ pc' = "loop" /\ Failed(cur, "decode")'

C18_OriginalWitnessDownstream == [] C18_Downstream /\ [][C18_Step]_vars

\* C18 happens: a closure is pending for a chunk whose witness was encoded
\* and decoded, and the witness it holds differs from the decoded copy.
C18_Witness ==
    \E t \in OwnTasks :
        /\ Succeeded(t.shard_id, "decode")
        /\ t.witness.form = "built"
        /\ decode(encode(t.witness)) # t.witness

\* The calls of shadow_validate_chunk that failed for shard s in this call.
SyncFailures(s) == { stage \in SyncStages : Failed(s, stage) }
\* The new chunks whose attempt failed in a synchronous stage.
SyncFailed == { s \in Shards : SyncFailures(s) # {} }
\* The new chunks whose closure was submitted and has completed.
Completed == { s \in Shards : Submitted(s) /\ \A t \in OwnTasks : t.shard_id # s }

\* C19: the failure counter grows at most once per attempt.  An attempt has
\* at most one failed stage and then no closure; the step of a failing stage
\* adds exactly 1 and submits nothing, the step of a succeeding stage and the
\* submission add nothing, and the completion of a closure adds 1 or nothing.
\* Hence for the first block the counter is at least the number of attempts
\* that failed synchronously, at most that number plus the closures that
\* have completed, and so at most the number of new chunks of the block.
C19_PerAttempt ==
    /\ \A s \in Shards :
        /\ Cardinality(SyncFailures(s)) <= 1
        /\ s \in SyncFailed => ~Submitted(s)
    /\ height = 1 =>
        /\ counter >= Cardinality(SyncFailed)
        /\ counter <= Cardinality(SyncFailed) + Cardinality(Completed)
        /\ counter <= Cardinality(NewChunks(block))

C19_Step ==
    /\ (pc \in SyncStages /\ pc' # pc) =>
           IF << cur, pc, FALSE >> \in ran'
             THEN counter' = counter + 1 /\ tasks' = tasks /\ pc' = "loop"
             ELSE counter' = counter
    /\ (pc = "spawn" /\ pc' # pc) => counter' = counter
    /\ tasks \ tasks' # {} => (counter' = counter \/ counter' = counter + 1)

C19_AtMostOncePerAttempt == [] C19_PerAttempt /\ [][C19_Step]_vars

\* C19 happens: both chunks of the first block are new, the attempt of shard
\* 0 failed in a synchronous stage, the closure of shard 1 was submitted and
\* failed, and the counter stands at 2, the number of new chunks.
C19_Witness ==
    /\ height = 1
    /\ NewChunks(block) = Shards
    /\ 0 \in SyncFailed
    /\ Submitted(1)
    /\ tasks = {}
    /\ pc = "idle"
    /\ counter = 2

\* C20: in a build without the shadow_chunk_validation feature the call
\* returns success for every block it is handed and does nothing: the
\* previous block is never asked for (so its absence cannot fail the call),
\* no chunk is attempted, nothing is submitted, logged or saved, and the
\* failure counter stays where it was.
C20_FeatureOffDoesNothing ==
    ~feature =>
        /\ pc = "idle"
        /\ height > 0 => result = "ok"
        /\ height < MaxBlocks => ENABLED ShadowValidateBlockChunks
        /\ ran = {}
        /\ prev_block = NoBlock
        /\ tasks = {}
        /\ counter = 0
        /\ failures = 0
        /\ last_error = NoError
        /\ latest_witness = NoHash

\* C20 happens: a build without the feature was handed two blocks, the
\* second with every chunk new, and the call returned success.
C20_Witness ==
    /\ ~feature
    /\ height = 2
    /\ NewChunks(block) = Shards
    /\ result = "ok"

====
